---- MODULE Spec2Model ----
(***************************************************************************)
(* Model of yt_dlp/extractor/funimation.py: the four Funimation extractors *)
(* (FunimationShowIE, FunimationPageIE, FunimationIE, FunimationMetaIE),   *)
(* their URL patterns, the redirects between them and the results they     *)
(* return.                                                                 *)
(*                                                                         *)
(* Text that the code formats and parses (URLs, ids) is a sequence of      *)
(* one-character strings.  A URL is [origin, rest]: the scheme and host,   *)
(* which every pattern matches literally, and the text after the host's    *)
(* "/".  Python's None is the empty tuple and a present value x is <<x>>.  *)
(***************************************************************************)
EXTENDS Integers, Sequences, FiniteSets, TLC

\* ------------------------------------------------------------ bounds
MaxRedirects == 4
MaxVideoList == 2
MaxVodItems == 2
MaxExperiences == 2
MaxSources == 2
MaxFallback == 1
MaxTracks == 2
MaxRuns == 3

\* ------------------------------------------------------------ values
None == <<>>
Some(x) == <<x>>
IsNone(o) == o = <<>>
Val(o) == o[1]

MaxOf(S) == CHOOSE x \in S : \A y \in S : y <= x
MinOf(S) == CHOOSE x \in S : \A y \in S : x <= y

Drop(s, n) == SubSeq(s, n + 1, Len(s))
Take(s, n) == SubSeq(s, 1, n)
IsPrefix(p, s) == Len(p) <= Len(s) /\ Take(s, Len(p)) = p

\* ------------------------------------------------------------ text
DigitChar == <<"0", "1", "2", "3", "4", "5", "6", "7", "8", "9">>
IsDigit(c) == \E d \in 1..10 : DigitChar[d] = c
IsNotSlash(c) == c # "/"
IsSlugChar(c) == c \notin {"/", "?", "#", "&"}

\* Length of the longest prefix of s whose characters are all in the class:
\* what a greedy  [class]*  consumes.
InClass(class, c) ==
    CASE class = "digit" -> IsDigit(c)
      [] class = "notslash" -> IsNotSlash(c)
      [] class = "slug" -> IsSlugChar(c)

SpanLen(s, class) ==
    MaxOf({k \in 0..Len(s) : \A i \in 1..k : InClass(class, s[i])})

RECURSIVE IntToStr(_)
IntToStr(n) ==
    IF n < 10 THEN <<DigitChar[n + 1]>>
    ELSE IntToStr(n \div 10) \o <<DigitChar[(n % 10) + 1]>>

DigitVal(c) == (CHOOSE d \in 1..10 : DigitChar[d] = c) - 1

RECURSIVE StrToInt(_)
StrToInt(s) ==
    IF Len(s) = 0 THEN 0
    ELSE 10 * StrToInt(Take(s, Len(s) - 1)) + DigitVal(s[Len(s)])

T_None == <<"N", "o", "n", "e">>
T_shows == <<"s", "h", "o", "w", "s", "/">>
T_v == <<"v", "/">>
T_player == <<"p", "l", "a", "y", "e", "r", "/">>
T_episodes == <<"d", "a", "t", "a", "/", "v", "1", "/", "e", "p", "i", "s", "o", "d", "e", "s", "/">>
T_json == <<"j", "s", "o", "n">>

\* f'{x}' of an optional value: str(None) is 'None'.
FmtText(o) == IF IsNone(o) THEN T_None ELSE Val(o)
FmtInt(o) == IF IsNone(o) THEN T_None ELSE IntToStr(Val(o))

\* ------------------------------------------------------------ URL patterns
FunimationAnyOrigins ==
    {"https://www.funimation.com", "http://funimation.com", "https://www.funimationnow.uk"}
FunimationComOrigins == {"https://www.funimation.com", "http://funimation.com"}
CloudfrontOrigins == {"https://d33et77evd9bgg.cloudfront.net"}

NoMatch == [ok |-> FALSE]

\* (?:shows|v)/(?P<show>[^/]+)/(?P<episode>[^/?#&]+)  matched at the start of s
PageTail(s) ==
    LET body == IF IsPrefix(T_shows, s) THEN Some(Drop(s, Len(T_shows)))
                ELSE IF IsPrefix(T_v, s) THEN Some(Drop(s, Len(T_v)))
                ELSE None
    IN  IF IsNone(body) THEN NoMatch
        ELSE LET b == Val(body)
                 n == SpanLen(b, "notslash")
                 e == Drop(b, n + 1)
                 m == SpanLen(e, "slug")
             IN  IF n >= 1 /\ n < Len(b) /\ m >= 1
                 THEN [ok |-> TRUE, show |-> Take(b, n), episode |-> Take(e, m)]
                 ELSE NoMatch

\* FunimationPageIE._VALID_URL; the optional lang group is tried first.
PageMatch(u) ==
    IF u.origin \notin FunimationAnyOrigins THEN NoMatch
    ELSE LET s == u.rest
             n == SpanLen(s, "notslash")
             withLang == IF n >= 1 /\ n < Len(s) THEN PageTail(Drop(s, n + 1)) ELSE NoMatch
             without == PageTail(s)
         IN  IF withLang.ok
             THEN [ok |-> TRUE, lang |-> Some(Take(s, n)),
                   show |-> withLang.show, episode |-> withLang.episode]
             ELSE IF without.ok
             THEN [ok |-> TRUE, lang |-> None,
                   show |-> without.show, episode |-> without.episode]
             ELSE NoMatch

\* FunimationIE._VALID_URL
PlayerMatch(u) ==
    IF u.origin \notin FunimationComOrigins \/ ~IsPrefix(T_player, u.rest) THEN NoMatch
    ELSE LET s == Drop(u.rest, Len(T_player))
             n == SpanLen(s, "digit")
             a == Drop(s, n)
             q == IF Len(a) >= 1 /\ a[1] = "?" THEN Drop(a, 1) ELSE a
             m == SpanLen(q, "slug")
         IN  IF n = 0 THEN NoMatch
             ELSE [ok |-> TRUE, id |-> Take(s, n),
                   episode_slug |-> IF m = 0 THEN None ELSE Some(Take(q, m))]

\* FunimationMetaIE._VALID_URL: a greedy id, given back until ".json" (any
\* character, then json) follows it.
MetaMatch(u) ==
    IF u.origin \notin CloudfrontOrigins \/ ~IsPrefix(T_episodes, u.rest) THEN NoMatch
    ELSE LET s == Drop(u.rest, Len(T_episodes))
             ks == {k \in 1..SpanLen(s, "slug") :
                        /\ Len(s) >= k + 5
                        /\ SubSeq(s, k + 2, k + 5) = T_json}
         IN  IF ks = {} THEN NoMatch
             ELSE [ok |-> TRUE, id |-> Take(s, MaxOf(ks))]

\* FunimationShowIE._VALID_URL.  The candidates for the optional locale and
\* the optional "/" after it, in the order the regex engine tries them: the
\* longest locale first, the "/" taken before it is left.
ShowMatch(u) ==
    IF u.origin \notin FunimationAnyOrigins THEN NoMatch
    ELSE LET s == u.rest
             mx == SpanLen(s, "notslash")
             After(k, slash) == Drop(s, k + (IF slash THEN 1 ELSE 0))
             IdLen(k, slash) == SpanLen(Drop(After(k, slash), Len(T_shows)), "slug")
             TailOk(t) == \/ t = <<>>
                          \/ t[1] \in {"?", "#"}
                          \/ t[1] = "/" /\ (Len(t) = 1 \/ t[2] \in {"?", "#"})
             Good(k, slash) ==
                 /\ slash => (Len(s) > k /\ s[k + 1] = "/")
                 /\ IsPrefix(T_shows, After(k, slash))
                 /\ IdLen(k, slash) >= 1
                 /\ TailOk(Drop(After(k, slash), Len(T_shows) + IdLen(k, slash)))
             Prio(k, slash) == 2 * (mx - k) + (IF slash THEN 0 ELSE 1)
             cands == {c \in (0..mx) \X BOOLEAN : Good(c[1], c[2])}
         IN  IF cands = {} THEN NoMatch
             ELSE LET c == CHOOSE x \in cands :
                               \A y \in cands : Prio(x[1], x[2]) <= Prio(y[1], y[2])
                      k == c[1]
                      endId == k + (IF c[2] THEN 1 ELSE 0) + Len(T_shows) + IdLen(k, c[2])
                  IN  [ok |-> TRUE,
                       url |-> [origin |-> u.origin, rest |-> Take(s, endId)],
                       locale |-> IF k = 0 THEN None ELSE Some(Take(s, k)),
                       id |-> SubSeq(s, endId - IdLen(k, c[2]) + 1, endId)]


\* ------------------------------------------------------------ labels
\* A language or version name is [w, c]: the word and its letter case
\* ("lower", "cap": first letter upper case, "upper").  The names here are
\* single words, for which str.title() and str.capitalize() agree.
Label(w, c) == [w |-> w, c |-> c]
Lower(s) == [s EXCEPT !.c = "lower"]
Title(s) == [s EXCEPT !.c = IF s.w = "" THEN "lower" ELSE "cap"]
Capitalize(s) == [s EXCEPT !.c = IF s.w = "" THEN "lower" ELSE "cap"]
Upper(s) == [s EXCEPT !.c = IF s.w = "" THEN "lower" ELSE "upper"]
EmptyLabel == Label("", "lower")

RECURSIVE Reverse(_)
Reverse(s) == IF s = <<>> THEN <<>> ELSE Reverse(Tail(s)) \o <<Head(s)>>

\* utils.qualities(quality_ids)(qid): the index of qid in the list, or -1.
Qualities(quality_ids, qid) ==
    IF \E i \in 1..Len(quality_ids) : quality_ids[i] = qid
    THEN MinOf({i \in 1..Len(quality_ids) : quality_ids[i] = qid}) - 1
    ELSE -1

\* InfoExtractor._configuration_arg(key): the values given, lower-cased.
ConfigurationArg(given) == [i \in 1..Len(given) |-> Lower(given[i])]

\* InfoExtractor.url_result(url, ie, video_id, video_title)
UrlResult(u, key, video_id, video_title) ==
    [type |-> "url", url |-> u, ie_key |-> key, id |-> video_id, title |-> video_title]

\* InfoExtractor._remove_duplicate_formats: the first format of each URL.
RemoveDuplicateFormats(formats) ==
    LET Keep(i) == \A j \in 1..(i - 1) : formats[j].url # formats[i].url
        F[i \in 0..Len(formats)] ==
            IF i = 0 THEN <<>>
            ELSE IF Keep(i) THEN Append(F[i - 1], formats[i]) ELSE F[i - 1]
    IN  F[Len(formats)]

\* ------------------------------------------------------------ outcomes
\* What one _real_extract call ends with: a raised exception, a url_result
\* (a redirect to another extractor), a playlist or an info dict.  "seen" is
\* what the call was given and what it requested, kept for the properties.
Raised(by, exc, seen) == [kind |-> "error", by |-> by, exc |-> exc, seen |-> seen]
Redirect(by, res, seen) == [kind |-> "redirect", by |-> by, result |-> res, seen |-> seen]

Url(origin, rest) == [origin |-> origin, rest |-> rest]

\* ------------------------------------------------------------ FunimationPageIE
\* traverse_obj(response, ('videoList', ..., 'id'), get_all=False): the first
\* id that is not None, or None.
FirstVideoId(videoList) ==
    IF IsNone(videoList) THEN None
    ELSE LET l == Val(videoList)
             has == {i \in 1..Len(l) : ~IsNone(l[i])}
         IN  IF has = {} THEN None ELSE l[MinOf(has)]

MetaUrl(slug) ==
    Url("https://d33et77evd9bgg.cloudfront.net", T_episodes \o FmtText(slug) \o <<".">> \o T_json)

PlayerUrl(video_id, episode) ==
    Url("https://www.funimation.com", T_player \o FmtInt(video_id) \o <<"?">> \o episode)

\* The except clause with the 404 redirect naming the page extractor itself.
PageOnError_ToPage(episode, api) ==
    IF api.cause = "HTTPError" /\ api.status = 404
    THEN Redirect("FunimationPage",
                  UrlResult(MetaUrl(Some(episode)), "FunimationPage", None, None), api)
    ELSE Raised("FunimationPage", "UnboundLocalError", api)

\* The except clause of FunimationPageIE._real_extract: a 404 returns the
\* metadata redirect; otherwise the clause ends without raising and the
\* function goes on to its last line, where video_id was never bound.
PageOnError(episode, api) ==
    IF api.cause = "HTTPError" /\ api.status = 404
    THEN Redirect("FunimationPage",
                  UrlResult(MetaUrl(Some(episode)), "FunimationMeta", None, None), api)
    ELSE Raised("FunimationPage", "UnboundLocalError", api)

PageRealExtract(u, api) ==
    LET m == PageMatch(u)
    IN  IF ~m.ok THEN Raised("FunimationPage", "AttributeError", api)
        ELSE IF api.kind = "error" THEN PageOnError(m.episode, api)
        ELSE Redirect("FunimationPage",
                      UrlResult(PlayerUrl(FirstVideoId(api.videoList), m.episode),
                                "Funimation", None, None), api)

\* ------------------------------------------------------------ FunimationShowIE
FoldChar(c) ==
    CASE c = "R" -> "r" [] c = "A" -> "a" [] c = "S" -> "s" [] c = "V" -> "v"
      [] c = "M" -> "m" [] OTHER -> c

T_mostrecent == <<"m", "o", "s", "t", "r", "e", "c", "e", "n", "t">>
T_vod == <<"v", "o", "d">>

\* re.match(r'(?i)mostRecent[AS]vod', k): a match at the start of the key,
\* letter case ignored.
VodKeyMatch(k) ==
    /\ Len(k) >= 14
    /\ [i \in 1..10 |-> FoldChar(k[i])] = T_mostrecent
    /\ FoldChar(k[11]) \in {"a", "s"}
    /\ [i \in 1..3 |-> FoldChar(k[11 + i])] = T_vod

\* traverse_obj(items_info, ('items', ..., <matching key>, 'item')): over the
\* items in order, over each item's keys in order, the 'item' of each value
\* under a matching key.  An item is a sequence of [key, item] pairs.
RECURSIVE VodOfItem(_)
VodOfItem(pairs) ==
    IF pairs = <<>> THEN <<>>
    ELSE (IF VodKeyMatch(Head(pairs).key) THEN <<Head(pairs).item>> ELSE <<>>)
         \o VodOfItem(Tail(pairs))

RECURSIVE VodItems(_)
VodItems(items) ==
    IF items = <<>> THEN <<>> ELSE VodOfItem(Head(items)) \o VodItems(Tail(items))

\* The sort key with an item that lacks episodeOrder placed after the others.
EpisodeOrderKey_MissingLast(vod) ==
    IF IsNone(vod.episodeOrder) THEN 1000 ELSE Val(vod.episodeOrder)

\* x.get('episodeOrder', -1)
EpisodeOrderKey(vod) == IF IsNone(vod.episodeOrder) THEN -1 ELSE Val(vod.episodeOrder)

\* sorted(seq, key=...): stable; each element goes after the elements
\* already placed whose key is not greater.
RECURSIVE InsertByKey(_, _)
InsertByKey(sorted, x) ==
    IF sorted = <<>> THEN <<x>>
    ELSE IF EpisodeOrderKey(sorted[Len(sorted)]) <= EpisodeOrderKey(x) THEN Append(sorted, x)
    ELSE Append(InsertByKey(Take(sorted, Len(sorted) - 1), x), sorted[Len(sorted)])

RECURSIVE SortedVodItems(_)
SortedVodItems(s) ==
    IF s = <<>> THEN <<>>
    ELSE InsertByKey(SortedVodItems(Take(s, Len(s) - 1)), s[Len(s)])

\* utils.orderedSet: the first occurrence of each element, in order.
RECURSIVE OrderedSet(_)
OrderedSet(s) ==
    IF s = <<>> THEN <<>>
    ELSE LET init == OrderedSet(Take(s, Len(s) - 1))
             x == s[Len(s)]
         IN  IF \E i \in 1..Len(init) : init[i] = x THEN init ELSE Append(init, x)

ShowEntry(base_url, vod_item) ==
    UrlResult(Url(base_url.origin, base_url.rest \o <<"/">> \o FmtText(vod_item.episodeSlug)),
              "FunimationPage", vod_item.episodeId, vod_item.episodeName)

ShowEntries(base_url, vod_items) ==
    LET sorted == SortedVodItems(vod_items)
    IN  OrderedSet([i \in 1..Len(sorted) |-> ShowEntry(base_url, sorted[i])])

ShowRealExtract(u, api) ==
    LET m == ShowMatch(u)
    IN  IF ~m.ok THEN Raised("FunimationShow", "AttributeError", api)
        ELSE IF api.kind = "error" THEN Raised("FunimationShow", "ExtractorError", api)
        ELSE [kind |-> "playlist", by |-> "FunimationShow",
              id |-> api.show_info.id, title |-> api.show_info.name,
              entries |-> ShowEntries(m.url, VodItems(api.items)),
              seen |-> api]

\* ------------------------------------------------------------ FunimationIE
\* FunimationIE._get_experiences: (lang, version.title(), f) of every
\* experience of the episode, in the order of the episode's dictionaries.
GetExperiences(episode) ==
    [i \in 1..Len(episode.experiences) |->
        [lang |-> episode.experiences[i].lang,
         version |-> Title(episode.experiences[i].version),
         f |-> episode.experiences[i]]]

\* _search_regex(r'show\s*=\s*({.+?})\s*;', webpage, fatal=fatal)
SearchShowData(webpage, fatal) ==
    IF webpage.kind # "absent" THEN [raised |-> None, value |-> Some(webpage)]
    ELSE IF fatal THEN [raised |-> Some("ExtractorError"), value |-> None]
    ELSE [raised |-> None, value |-> None]

\* _parse_json(text, fatal=fatal): a text that is no JSON raises when fatal and
\* gives None otherwise; given None instead of a text, json.loads raises a
\* TypeError that _parse_json does not catch (none_raises), or None comes back.
ParseJson(text, fatal, none_raises) ==
    IF IsNone(text)
    THEN (IF none_raises THEN [raised |-> Some("TypeError"), value |-> None]
          ELSE [raised |-> None, value |-> None])
    ELSE IF Val(text).kind = "unparsable"
    THEN (IF fatal THEN [raised |-> Some("ExtractorError"), value |-> None]
          ELSE [raised |-> None, value |-> None])
    ELSE [raised |-> None, value |-> Some([type |-> "dict", episodes |-> Val(text).episodes])]

\* show = self._parse_json(...) or []
ShowOrDefault(parsed) == IF IsNone(parsed) THEN [type |-> "list"] ELSE Val(parsed)

EpisodeHit(episode, experience_id, episode_id) ==
    IF ~IsNone(episode_id)
    THEN IntToStr(episode.episodePk) = Val(episode_id)
    ELSE \E i \in 1..Len(episode.experiences) :
             Some(episode.experiences[i].experienceId) = experience_id

\* FunimationIE._get_episode: [raised, episode]; episode None is the empty
\* dict returned when nothing is found and fatal is false.
GetEpisode(webpage, experience_id, episode_id, fatal, none_raises) ==
    LET found == SearchShowData(webpage, fatal)
        parsed == ParseJson(found.value, fatal, none_raises)
        show == ShowOrDefault(parsed.value)
        hits == {i \in 1..Len(show.episodes) :
                     EpisodeHit(show.episodes[i], experience_id, episode_id)}
    IN  IF ~IsNone(found.raised) THEN [raised |-> found.raised, episode |-> None]
        ELSE IF ~IsNone(parsed.raised) THEN [raised |-> parsed.raised, episode |-> None]
        ELSE IF show.type # "dict" THEN [raised |-> Some("AttributeError"), episode |-> None]
        ELSE IF hits # {} THEN [raised |-> None, episode |-> Some(show.episodes[MinOf(hits)])]
        ELSE IF fatal THEN [raised |-> Some("ExtractorError"), episode |-> None]
        ELSE [raised |-> None, episode |-> None]

\* language_preference = qualities((requested_languages or [''])[::-1])
LanguagePreference(requested_languages, lang) ==
    Qualities(Reverse(IF requested_languages = <<>> THEN <<EmptyLabel>>
                      ELSE requested_languages), lang)

\* source_preference without the reversal of the list.
SourcePreference_NotReversed(requested_versions, version) ==
    Qualities(IF requested_versions = <<>>
              THEN <<Label("uncut", "lower"), Label("simulcast", "lower")>>
              ELSE requested_versions, version)

\* source_preference = qualities((requested_versions or ['uncut', 'simulcast'])[::-1])
SourcePreference(requested_versions, version) ==
    Qualities(Reverse(IF requested_versions = <<>>
                      THEN <<Label("uncut", "lower"), Label("simulcast", "lower")>>
                      ELSE requested_versions), version)

\* The test without its language clause.
SkipExperience_NoLanguage(args, initial_experience_id, experience_id, lang, version) ==
    \/ args.only_initial_experience /\ experience_id # initial_experience_id
    \/ args.versions # <<>>
         /\ ~\E i \in 1..Len(args.versions) : args.versions[i] = Lower(version)

\* The test of the experience loop that skips an experience.
SkipExperience(args, initial_experience_id, experience_id, lang, version) ==
    \/ args.only_initial_experience /\ experience_id # initial_experience_id
    \/ args.languages # <<>>
         /\ ~\E i \in 1..Len(args.languages) : args.languages[i] = Lower(lang)
    \/ args.versions # <<>>
         /\ ~\E i \in 1..Len(args.versions) : args.versions[i] = Lower(version)

\* The 'items' of the showexperience page of an experience: the sources the
\* service lists, each file at a URL of that experience unless it is shared.
SourceUrl(source, experienceId) ==
    [name |-> source.name, exp |-> IF source.shared THEN 0 ELSE experienceId,
     ext |-> source.ext]

\* utils.determine_ext(url)
DetermineExt(source_url) == source_url.ext

\* _extract_m3u8_formats(source_url, m3u8_id=...): one format per variant of
\* the manifest (two in every manifest here).
ExtractM3u8Formats(source_url, m3u8_id) ==
    [j \in 1..2 |-> [format_id |-> [exp |-> m3u8_id.exp, type |-> m3u8_id.type, n |-> j],
                     url |-> [name |-> "variant", exp |-> source_url.exp,
                              ext |-> source_url.ext, n |-> j]]]

\* The formats one source adds to current_formats.
SourceFormats(source, experience_id, experienceId) ==
    LET source_url == SourceUrl(source, experienceId)
        source_type == IF ~IsNone(source.videoType) THEN Val(source.videoType)
                       ELSE DetermineExt(source_url)
    IN  IF source_type = "m3u8"
        THEN ExtractM3u8Formats(source_url, [exp |-> experience_id, type |-> "hls"])
        ELSE <<[format_id |-> [exp |-> experience_id, type |-> source_type, n |-> 0],
                url |-> source_url]>>

\* f.update({...}) of the experience loop
UpdateFormat(f, args, lang, version) ==
    [format_id |-> f.format_id, url |-> f.url,
     language |-> lang, format_note |-> version,
     source_preference |-> SourcePreference(args.versions, Lower(version)),
     language_preference |-> LanguagePreference(args.languages, Lower(lang))]

\* The loop over the sources of one experience: [current, formats] after the
\* first n sources.  Each pass extends current_formats, updates every format
\* in it and extends formats by the whole of it.
RECURSIVE SourceLoop(_, _, _, _, _, _)
SourceLoop(sources, n, formats, args, x, experience_id) ==
    IF n = 0 THEN [current |-> <<>>, formats |-> formats]
    ELSE LET before == SourceLoop(sources, n - 1, formats, args, x, experience_id)
             added == before.current
                        \o SourceFormats(sources[n], experience_id, x.f.experienceId)
             current == [i \in 1..Len(added) |->
                            UpdateFormat(added[i], args, x.lang, x.version)]
         IN  [current |-> current, formats |-> before.formats \o current]

\* The loop over the experiences: what is collected after the first n.
RECURSIVE ExperienceLoop(_, _, _, _, _)
ExperienceLoop(xs, n, args, initial_experience_id, sources) ==
    IF n = 0 THEN [formats |-> <<>>, thumbnails |-> <<>>, requested |-> <<>>]
    ELSE LET acc == ExperienceLoop(xs, n - 1, args, initial_experience_id, sources)
             x == xs[n]
             experience_id == IntToStr(x.f.experienceId)
         IN  IF SkipExperience(args, initial_experience_id, experience_id, x.lang, x.version)
             THEN acc
             ELSE [formats |-> SourceLoop(sources, Len(sources), acc.formats,
                                          args, x, experience_id).formats,
                   thumbnails |-> Append(acc.thumbnails, [url |-> x.f.poster]),
                   requested |-> Append(acc.requested, experience_id)]

\* The formats returned when the duplicates are left in.
PlayerFormats_Kept(formats) == formats

\* self._remove_duplicate_formats(formats)
PlayerFormats(formats) == RemoveDuplicateFormats(formats)

\* utils.join_nonempty(*values, delim=...): the values that are neither None
\* nor empty, in order; the joined text is written as the sequence of its
\* parts.
JoinNonempty(values) ==
    LET kept == SelectSeq(values, LAMBDA v : ~IsNone(v) /\ Val(v) # EmptyLabel)
    IN  [i \in 1..Len(kept) |-> Val(kept[i])]

\* The subtitles dictionary is the sequence of its items in insertion order,
\* each [lang, subs].  subtitles.get(lang, [])
SubtitlesGet(subtitles, lang) ==
    IF \E i \in 1..Len(subtitles) : subtitles[i].lang = lang
    THEN subtitles[CHOOSE i \in 1..Len(subtitles) : subtitles[i].lang = lang].subs
    ELSE <<>>

\* subtitles.setdefault(lang, []).append(current_sub)
SubtitlesAppend(subtitles, lang, current_sub) ==
    IF \E i \in 1..Len(subtitles) : subtitles[i].lang = lang
    THEN [i \in 1..Len(subtitles) |->
             IF subtitles[i].lang = lang
             THEN [lang |-> lang, subs |-> Append(subtitles[i].subs, current_sub)]
             ELSE subtitles[i]]
    ELSE Append(subtitles, [lang |-> lang, subs |-> <<current_sub>>])

\* sub_type = text_track.get('type').upper(), None when it is 'FULL'
SubType(text_track) ==
    LET sub_type == Upper(Val(text_track.type))
    IN  IF sub_type # Label("full", "upper") THEN Some(sub_type) ELSE None

\* The key of a text track with the version left out for every version.
SubtitleLang_NoVersion(version, text_track) ==
    JoinNonempty(<<Some(IF IsNone(text_track.language) THEN Label("und", "lower")
                        ELSE Val(text_track.language)),
                   None,
                   SubType(text_track)>>)

\* The key of a text track: language, version unless 'Simulcast', type.
SubtitleLang(version, text_track) ==
    JoinNonempty(<<Some(IF IsNone(text_track.language) THEN Label("und", "lower")
                        ELSE Val(text_track.language)),
                   IF version # Label("simulcast", "cap") THEN Some(version) ELSE None,
                   SubType(text_track)>>)

\* The body of the innermost loop of _get_subtitles for one text track.
AddTextTrack(subtitles, version, text_track) ==
    IF IsNone(text_track.src) THEN subtitles
    ELSE LET current_sub == [url |-> Val(text_track.src),
                             name |-> JoinNonempty(<<Some(version), text_track.label,
                                                     SubType(text_track)>>)]
             lang == SubtitleLang(version, text_track)
         IN  IF \E i \in 1..Len(SubtitlesGet(subtitles, lang)) :
                    SubtitlesGet(subtitles, lang)[i] = current_sub
             THEN subtitles
             ELSE SubtitlesAppend(subtitles, lang, current_sub)

\* The text tracks the three loops of _get_subtitles visit, in order, each
\* with the version of its experience.
RECURSIVE TextTracksOfSources(_, _)
TextTracksOfSources(version, sources) ==
    IF sources = <<>> THEN <<>>
    ELSE [i \in 1..Len(Head(sources).textTracks) |->
             [version |-> version, text_track |-> Head(sources).textTracks[i]]]
         \o TextTracksOfSources(version, Tail(sources))

RECURSIVE TextTracksOfExperiences(_)
TextTracksOfExperiences(xs) ==
    IF xs = <<>> THEN <<>>
    ELSE TextTracksOfSources(Head(xs).version, Head(xs).f.sources)
         \o TextTracksOfExperiences(Tail(xs))

\* The loops of _get_subtitles over the first n text tracks: the dictionary,
\* or the AttributeError of None.upper() at a track with a src and no type.
RECURSIVE TextTrackLoop(_, _, _)
TextTrackLoop(subtitles, visited, n) ==
    IF n = 0 THEN [raised |-> None, subtitles |-> subtitles]
    ELSE LET before == TextTrackLoop(subtitles, visited, n - 1)
             tt == visited[n].text_track
         IN  IF ~IsNone(before.raised) THEN before
             ELSE IF ~IsNone(tt.src) /\ IsNone(tt.type)
             THEN [raised |-> Some("AttributeError"), subtitles |-> before.subtitles]
             ELSE [raised |-> None,
                   subtitles |-> AddTextTrack(before.subtitles, visited[n].version, tt)]

\* FunimationIE._get_subtitles.  episode is [is_str, value]: the episode
\* dictionary, or the episode id when the experience is not the initial one;
\* then the player page of the experience is downloaded (fatal=False: False
\* on failure, which _search_regex cannot search) and the episode looked up
\* in it.
GetSubtitles(subtitles, episode, player_page, none_raises) ==
    IF ~episode.is_str
    THEN LET visited == TextTracksOfExperiences(GetExperiences(episode.value))
         IN  TextTrackLoop(subtitles, visited, Len(visited))
    ELSE IF player_page.kind = "failed"
    THEN [raised |-> Some("TypeError"), subtitles |-> subtitles]
    ELSE LET got == GetEpisode(player_page, None, Some(episode.value), FALSE, none_raises)
         IN  IF ~IsNone(got.raised) THEN [raised |-> got.raised, subtitles |-> subtitles]
             ELSE IF IsNone(got.episode) THEN [raised |-> None, subtitles |-> subtitles]
             ELSE LET visited == TextTracksOfExperiences(GetExperiences(Val(got.episode)))
                  IN  TextTrackLoop(subtitles, visited, Len(visited))

\* The extract_subtitles calls of the experience loop, one for each
\* experience that is not skipped: the dictionary after the first n
\* experiences and, in calls, the dictionary as each call left it.  Without
\* writesubtitles extract_subtitles does not call _get_subtitles.
RECURSIVE SubtitlesLoop(_, _, _, _, _, _)
SubtitlesLoop(xs, n, args, initial_experience_id, episode, inp) ==
    IF n = 0 THEN [raised |-> None, subtitles |-> <<>>, calls |-> <<>>]
    ELSE LET acc == SubtitlesLoop(xs, n - 1, args, initial_experience_id, episode, inp)
             x == xs[n]
             experience_id == IntToStr(x.f.experienceId)
         IN  IF \/ ~IsNone(acc.raised)
                \/ ~args.writesubtitles
                \/ SkipExperience(args, initial_experience_id, experience_id, x.lang, x.version)
             THEN acc
             ELSE LET got == GetSubtitles(
                                 acc.subtitles,
                                 IF experience_id = initial_experience_id
                                 THEN [is_str |-> FALSE, value |-> episode]
                                 ELSE [is_str |-> TRUE, value |-> IntToStr(episode.episodePk)],
                                 inp.player_page, inp.none_raises)
                  IN  [raised |-> got.raised, subtitles |-> got.subtitles,
                       calls |-> Append(acc.calls, got.subtitles)]

\* The 'id' of the info dict FunimationIE returns.
PlayerResultId(args, initial_experience_id, episode_id) == episode_id

PlayerInfo(args, initial_experience_id, episode, sources, seen) ==
    LET episode_id == IntToStr(episode.episodePk)
        display_id == IF IsNone(episode.slug) THEN episode_id ELSE Val(episode.slug)
        got == ExperienceLoop(GetExperiences(episode), Len(episode.experiences),
                              args, initial_experience_id, sources)
        subs == SubtitlesLoop(GetExperiences(episode), Len(episode.experiences),
                              args, initial_experience_id, episode, seen)
    IN  IF ~IsNone(subs.raised) THEN Raised("Funimation", Val(subs.raised), seen)
        ELSE IF got.formats = <<>> /\ (args.languages # <<>> \/ args.versions # <<>>)
        THEN [kind |-> "error", by |-> "Funimation", exc |-> "NoFormats",
              requested |-> got.requested, seen |-> seen]
        ELSE [kind |-> "info", by |-> "Funimation",
              id |-> PlayerResultId(args, initial_experience_id, episode_id),
              old_archive_id |-> initial_experience_id,
              display_id |-> display_id,
              episode_id |-> episode_id,
              formats |-> PlayerFormats(got.formats),
              thumbnails |-> got.thumbnails,
              subtitles |-> subs.subtitles,
              subtitle_calls |-> subs.calls,
              requested |-> got.requested,
              seen |-> seen]

\* self._configuration_arg('language'), ('version') and the compat option
PlayerArgs(c) ==
    [languages |-> ConfigurationArg(c.language),
     versions |-> ConfigurationArg(c.version),
     only_initial_experience |-> "seperate-video-versions" \in c.compat_opts,
     writesubtitles |-> c.writesubtitles]

PlayerRealExtract(u, c, inp) ==
    LET m == PlayerMatch(u)
        got == GetEpisode(inp.webpage, Some(StrToInt(m.id)), None,
                          IsNone(m.episode_slug), inp.none_raises)
    IN  IF ~m.ok THEN Raised("Funimation", "AttributeError", inp)
        ELSE IF inp.download = "error" THEN Raised("Funimation", "ExtractorError", inp)
        ELSE IF ~IsNone(got.raised) THEN Raised("Funimation", Val(got.raised), inp)
        ELSE IF IsNone(got.episode)
        THEN Redirect("Funimation",
                      UrlResult(MetaUrl(m.episode_slug), "FunimationMeta", None, None), inp)
        ELSE PlayerInfo(PlayerArgs(c), m.id, Val(got.episode), inp.sources, inp)

\* ------------------------------------------------------------ token
\* self._TOKEN as the instance of an extractor reads it: FunimationMetaIE
\* has its own attribute once it has assigned one (line 431), every instance
\* reads the class attribute FunimationBaseIE._TOKEN otherwise.
SelfToken(T, key) ==
    IF key = "FunimationMeta" /\ T.meta_set THEN T.meta ELSE T.cls

\* FunimationBaseIE._perform_login on the instance of extractor key, with the
\* answer of the login request: [T, requested, raised].
PerformLogin(T, key, answer) ==
    IF ~IsNone(SelfToken(T, key)) THEN [T |-> T, requested |-> FALSE, raised |-> None]
    ELSE IF answer.kind = "ok"
    THEN [T |-> [T EXCEPT !.cls = Some([type |-> "str", value |-> answer.token])],
          requested |-> TRUE, raised |-> None]
    ELSE IF answer.kind = "no_token"
    THEN [T |-> T, requested |-> TRUE, raised |-> Some("KeyError")]
    ELSE [T |-> T, requested |-> TRUE, raised |-> Some("ExtractorError")]

\* The headers of the showexperience requests of FunimationIE: 'Token %s' %
\* self._TOKEN, the text of a str or the str() of a cookie object.
PlayerHeaders(T) ==
    LET t == SelfToken(T, "Funimation")
    IN  IF IsNone(t) THEN None
        ELSE Some([text |-> IF Val(t).type = "str" THEN "value" ELSE "str(Morsel)",
                   of |-> Val(t).value])

\* What a FunimationIE call ended with, and the headers it sent.
PlayerSent(T, o) == [headers |-> PlayerHeaders(T)] @@ o

\* ------------------------------------------------------------ FunimationMetaIE
\* The token an extractor instance reads as self._TOKEN: its own attribute
\* once it has assigned one, the class attribute FunimationBaseIE._TOKEN
\* otherwise.  A token is [type, value]: a str, or the cookie object (Morsel).
MetaToken(T) == IF T.meta_set THEN T.meta ELSE T.cls

\* FunimationMetaIE.add_format: the formats one playback adds.
MetaAddFormat(c, playback_info) ==
    LET requested_languages == ConfigurationArg(c.language)
        requested_versions == ConfigurationArg(c.version)
        experience_id == IntToStr(playback_info.venueVideoId)
        lang == playback_info.audioLanguage
        version == Capitalize(playback_info.version)
        source_url == playback_info.manifestPath
        source_type == playback_info.fileExt
        Updated(f) ==
            [format_id |-> f.format_id, url |-> f.url,
             language |-> lang, format_note |-> version,
             source_preference |->
                 Qualities(Reverse(IF requested_versions = <<>>
                                   THEN <<Label("uncut", "lower"), Label("simulcast", "lower")>>
                                   ELSE requested_versions), Lower(version)),
             language_preference |->
                 Qualities(Reverse(IF requested_languages = <<>> THEN <<EmptyLabel>>
                                   ELSE requested_languages), Lower(lang))]
        added == IF source_type = "m3u8"
                 THEN ExtractM3u8Formats(source_url, [exp |-> experience_id, type |-> "hls"])
                 ELSE <<[format_id |-> [exp |-> experience_id, type |-> source_type, n |-> 0],
                         url |-> source_url]>>
    IN  [i \in 1..Len(added) |-> Updated(added[i])]

\* current_formats after the primary playback and each fallback, in order.
RECURSIVE MetaFallbackFormats(_, _)
MetaFallbackFormats(c, fallback) ==
    IF fallback = <<>> THEN <<>>
    ELSE MetaAddFormat(c, Head(fallback)) \o MetaFallbackFormats(c, Tail(fallback))

MetaCurrentFormats(c, page) ==
    (IF IsNone(page.primary) THEN <<>> ELSE MetaAddFormat(c, Val(page.primary)))
    \o MetaFallbackFormats(c, page.fallback)

\* The loop that replaces a format's language code by the English name the
\* episode JSON lists for it (the first audio language with that code).
MetaLanguageName(audioLanguages, f) ==
    LET hit == {i \in 1..Len(audioLanguages) : audioLanguages[i].languageCode = f.language}
    IN  IF hit = {} THEN f
        ELSE [f EXCEPT !.language = audioLanguages[MinOf(hit)].name]

MetaInfo(c, episode_slug, show_info, page, request, seen) ==
    LET episode_id == FmtInt(show_info.venueId)
        display_id == IF episode_slug = <<>> THEN episode_id ELSE episode_slug
        current == MetaCurrentFormats(c, page)
        formats == [i \in 1..Len(current) |->
                       MetaLanguageName(Val(show_info.audioLanguages), current[i])]
    IN  IF current # <<>> /\ IsNone(show_info.audioLanguages)
        THEN [kind |-> "error", by |-> "FunimationMeta", exc |-> "TypeError",
              request |-> request, seen |-> seen]
        ELSE IF formats = <<>> /\ (ConfigurationArg(c.language) # <<>>
                                   \/ ConfigurationArg(c.version) # <<>>)
        THEN [kind |-> "error", by |-> "FunimationMeta", exc |-> "NoFormats",
              request |-> request, seen |-> seen]
        ELSE [kind |-> "info", by |-> "FunimationMeta",
              id |-> episode_id, display_id |-> display_id, episode_id |-> episode_id,
              formats |-> RemoveDuplicateFormats(formats),
              thumbnails |-> show_info.images,
              request |-> request, seen |-> seen]

\* if not self._TOKEN: self._TOKEN = <the src_token cookie, or None>
MetaTokenAfter(T, cookie) ==
    IF IsNone(MetaToken(T)) THEN [T EXCEPT !.meta_set = TRUE, !.meta = cookie] ELSE T

\* The playback request: with a token the header is built from
\* self._TOKEN.value, which a str does not have.
MetaRequest(T) ==
    LET t == MetaToken(T)
    IN  IF IsNone(t) THEN [raised |-> None, endpoint |-> "play/anonymous", authorization |-> None]
        ELSE IF Val(t).type # "morsel"
        THEN [raised |-> Some("AttributeError"), endpoint |-> "none", authorization |-> None]
        ELSE [raised |-> None, endpoint |-> "play", authorization |-> Some(Val(t).value)]

MetaRealExtract(u, c, T, inp) ==
    LET m == MetaMatch(u)
        request == MetaRequest(MetaTokenAfter(T, inp.cookie))
    IN  IF ~m.ok THEN Raised("FunimationMeta", "AttributeError", inp)
        ELSE IF inp.download = "error" THEN Raised("FunimationMeta", "ExtractorError", inp)
        ELSE IF ~IsNone(request.raised)
        THEN [kind |-> "error", by |-> "FunimationMeta", exc |-> Val(request.raised),
              request |-> request, seen |-> inp]
        ELSE IF inp.download = "play_error"
        THEN [kind |-> "error", by |-> "FunimationMeta", exc |-> "ExtractorError",
              request |-> request, seen |-> inp]
        ELSE MetaInfo(c, m.id, inp.show_info, inp.page, request, inp)

\* ------------------------------------------------------------ inputs
SeqUpTo(S, n) == UNION {[1..k -> S] : k \in 0..n}

T_e1 == <<"e", "1">>
T_e2 == <<"e", "2">>
T_show == <<"a">>

English == Label("english", "lower")
Japanese == Label("japanese", "cap")
Uncut == Label("uncut", "lower")
Simulcast == Label("simulcast", "lower")
Extras == Label("extras", "lower")

\* The URLs a run starts from: each is given to the extractor whose
\* _VALID_URL matches it.
StartUrls ==
    LET com == "https://www.funimation.com"
        uk == "https://www.funimationnow.uk"
        shows == T_shows \o T_show
        en == <<"e", "n">>
    IN  {Url(com, shows), Url(com, en \o <<"/">> \o shows), Url(uk, shows \o <<"/">>),
         Url(com, en \o shows),
         Url(com, shows \o <<"/">> \o T_e1), Url(uk, en \o <<"/">> \o shows \o <<"/">> \o T_e2),
         Url(com, T_v \o T_show \o <<"/">> \o T_e1 \o <<"?", "x">>),
         Url(com, T_player \o IntToStr(21)), Url(com, T_player \o IntToStr(22) \o <<"?">> \o T_e1),
         MetaUrl(Some(T_e1))}

Suitable(key, u) ==
    CASE key = "FunimationShow" -> ShowMatch(u).ok
      [] key = "FunimationPage" -> PageMatch(u).ok
      [] key = "Funimation" -> PlayerMatch(u).ok
      [] key = "FunimationMeta" -> MetaMatch(u).ok

Extractors == {"FunimationShow", "FunimationPage", "Funimation", "FunimationMeta"}

\* The answers of the title API to FunimationPageIE's request.
VideoIds == {None, Some(21), Some(22)}
TitleApiResults ==
    {[kind |-> "ok", videoList |-> v] :
         v \in {None} \cup {Some(l) : l \in SeqUpTo(VideoIds, MaxVideoList)}}
    \cup {[kind |-> "error", cause |-> "HTTPError", status |-> 404],
          [kind |-> "error", cause |-> "HTTPError", status |-> 500],
          [kind |-> "error", cause |-> "other", status |-> 0]}

\* The answers to FunimationShowIE's two requests.  Every item lists one
\* episode under one or two keys.
VodKeySets ==
    LET most == <<"m", "o", "s", "t">>
    IN  {<<most \o <<"R", "e", "c", "e", "n", "t", "A", "v", "o", "d">>>>,
         <<most \o <<"R", "e", "c", "e", "n", "t", "A", "v", "o", "d">>,
           most \o <<"R", "e", "c", "e", "n", "t", "S", "v", "o", "d">>>>,
         <<most \o <<"r", "e", "c", "e", "n", "t", "s", "v", "o", "d">>>>,
         <<most \o <<"R", "e", "c", "e", "n", "t", "V", "o", "d", "s">>>>}

VodEpisodes ==
    {[episodeSlug |-> sl, episodeId |-> sl, episodeName |-> sl, episodeOrder |-> o] :
         sl \in {Some(T_e1), Some(T_e2)}, o \in {None, Some(1), Some(2)}}

VodItemDicts ==
    {[i \in 1..Len(ks) |-> [key |-> ks[i], item |-> v]] : ks \in VodKeySets, v \in VodEpisodes}

ShowApiResults ==
    {[kind |-> "ok", show_info |-> [id |-> 1315, name |-> "SK8"], items |-> its] :
         its \in SeqUpTo(VodItemDicts, MaxVodItems)}
    \cup {[kind |-> "error"]}

\* The player page and the showexperience pages FunimationIE is given.
SourceKinds ==
    {[name |-> "file", shared |-> FALSE, ext |-> "mp4", videoType |-> None],
     [name |-> "master", shared |-> FALSE, ext |-> "m3u8", videoType |-> Some("m3u8")],
     [name |-> "file", shared |-> TRUE, ext |-> "mp4", videoType |-> None]}

ExperienceKinds ==
    {[lang |-> English, version |-> Uncut], [lang |-> English, version |-> Simulcast],
     [lang |-> Japanese, version |-> Simulcast], [lang |-> Japanese, version |-> Extras]}

\* An episode whose i-th experience has id 20 + i.
EpisodeOf(kinds) ==
    [episodePk |-> 10, slug |-> Some(T_e1),
     experiences |-> [i \in 1..Len(kinds) |->
                         [lang |-> kinds[i].lang, version |-> kinds[i].version,
                          experienceId |-> 20 + i, poster |-> 20 + i]]]

PlayerInput(webpage, sources, download, none_raises) ==
    [webpage |-> webpage, sources |-> sources, download |-> download,
     none_raises |-> none_raises]

PlayerInputsOf(episodes, shapes) ==
    {PlayerInput([kind |-> "show", episodes |-> <<e>>], sh, "ok", TRUE) :
         e \in episodes, sh \in shapes}
    \cup {PlayerInput([kind |-> "absent"], <<>>, "ok", b) : b \in BOOLEAN}
    \cup {PlayerInput([kind |-> "unparsable"], <<>>, "ok", TRUE),
          PlayerInput([kind |-> "show", episodes |-> <<>>], <<>>, "ok", TRUE),
          PlayerInput([kind |-> "absent"], <<>>, "error", TRUE)}

PlayerInputs ==
    PlayerInputsOf({EpisodeOf(<<[lang |-> English, version |-> Uncut]>>),
                    EpisodeOf(<<[lang |-> English, version |-> Uncut],
                                [lang |-> Japanese, version |-> Simulcast]>>)},
                   {<<>>, <<CHOOSE k \in SourceKinds : k.name = "master">>})

\* Every episode of up to MaxExperiences experiences, no two of them of the
\* same language and version, with every list of up to MaxSources sources.
PlayerInputsAll ==
    PlayerInputsOf({EpisodeOf(k) : k \in {q \in SeqUpTo(ExperienceKinds, MaxExperiences) \ {<<>>} :
                                              \A i, j \in 1..Len(q) : i # j => q[i] # q[j]}},
                   SeqUpTo(SourceKinds, MaxSources))

\* The episode JSON and the playback answer FunimationMetaIE is given.
Playbacks ==
    {[venueVideoId |-> 30 + (IF l = English THEN 0 ELSE 1) + (IF v.w = "uncut" THEN 0 ELSE 2),
      audioLanguage |-> l, version |-> v, fileExt |-> x,
      manifestPath |-> [name |-> "playback", exp |-> 30 + (IF l = English THEN 0 ELSE 1)
                                                    + (IF v.w = "uncut" THEN 0 ELSE 2),
                        ext |-> x],
      subtitles |-> <<>>] :
         l \in {English, Japanese}, v \in {Label("uncut", "cap"), Label("simulcast", "cap")},
         x \in {"m3u8", "mp4"}}

MetaShowInfo(named) ==
    [venueId |-> Some(10), id |-> 11, images |-> <<[url |-> 1]>>,
     audioLanguages |-> IF named
                        THEN Some(<<[languageCode |-> English, name |-> Label("english", "cap")]>>)
                        ELSE None]

MetaInputsOf(primaries, fallbacks) ==
    {[download |-> "ok", cookie |-> ck, show_info |-> MetaShowInfo(named),
      page |-> [primary |-> pr, fallback |-> fb]] :
         ck \in {None, Some([type |-> "morsel", value |-> "c"])}, named \in BOOLEAN,
         pr \in primaries, fb \in fallbacks}
    \cup {[download |-> d, cookie |-> None] : d \in {"error", "play_error"}}

MetaInputs ==
    LET p == CHOOSE x \in Playbacks :
                 x.audioLanguage = English /\ x.version.w = "uncut" /\ x.fileExt = "mp4"
    IN  MetaInputsOf({None, Some(p)}, {<<>>, <<p>>})

MetaInputsAll ==
    MetaInputsOf({None} \cup {Some(x) : x \in Playbacks}, SeqUpTo(Playbacks, MaxFallback))

\* The options of a run.
Options(language, version, compat_opts) ==
    [language |-> language, version |-> version, compat_opts |-> compat_opts,
     writesubtitles |-> FALSE, username |-> FALSE]

CompatSets == {{}, {"seperate-video-versions"}}

OptionsPlain == {Options(<<>>, <<>>, co) : co \in CompatSets}

OptionsAll ==
    {Options(l, v, co) :
         l \in {<<>>, <<Japanese>>, <<Japanese, English>>},
         v \in {<<>>, <<Simulcast>>, <<Label("simulcast", "cap"), Uncut>>},
         co \in CompatSets}

\* The text tracks of the player page: with the type in three letter cases,
\* without a language, without a src, without a type.
TextTrack(src, type, label, language) ==
    [src |-> src, type |-> type, label |-> label, language |-> language]

TextTracks ==
    {TextTrack(Some(1), Some(Label("full", "cap")), Some(Label("english", "cap")),
               Some(Label("en", "lower"))),
     TextTrack(Some(1), Some(Label("full", "upper")), Some(Label("english", "cap")),
               Some(Label("en", "lower"))),
     TextTrack(Some(2), Some(Label("cc", "lower")), None, None),
     TextTrack(None, Some(Label("full", "cap")), Some(Label("english", "cap")),
               Some(Label("en", "lower"))),
     TextTrack(Some(3), None, None, Some(Label("en", "lower")))}

LaterTextTracks ==
    <<TextTrack(None, Some(Label("cc", "lower")), None, Some(Label("en", "lower"))),
      TextTrack(Some(9), Some(Label("full", "lower")), Some(Label("english", "cap")),
                Some(Label("en", "lower")))>>

\* The experiences of the episodes with text tracks: one, two or three, with
\* and without a shared version.
SubtitleKinds ==
    LET eu == [lang |-> English, version |-> Uncut]
        js == [lang |-> Japanese, version |-> Simulcast]
        ju == [lang |-> Japanese, version |-> Uncut]
    IN  {<<eu>>, <<js>>, <<eu, js>>, <<js, eu>>, <<eu, ju>>, <<ju, js, eu>>}

\* An episode whose experiences all carry the text tracks, the first in one
\* source and the others in a second.
EpisodeWithTracks(kinds, episodePk, tracks) ==
    [episodePk |-> episodePk, slug |-> Some(T_e1),
     experiences |-> [i \in 1..Len(kinds) |->
                         [lang |-> kinds[i].lang, version |-> kinds[i].version,
                          experienceId |-> 20 + i, poster |-> 20 + i,
                          sources |-> IF tracks = <<>> THEN <<>>
                                      ELSE <<[textTracks |-> <<Head(tracks)>>],
                                             [textTracks |-> Tail(tracks)]>>]]]

\* The player page FunimationIE is given and the player page downloaded for
\* the subtitles of another experience: the same page, a page that lists the
\* tracks in the opposite order and two more, a page without the episode, a
\* page without show data, a failed download.
SubtitleInputs ==
    UNION {LET page(e) == [kind |-> "show", episodes |-> <<e>>]
           IN  {[webpage |-> page(EpisodeWithTracks(k, 10, tl)),
                 sources |-> <<CHOOSE sk \in SourceKinds : sk.name = "file" /\ ~sk.shared>>,
                 download |-> "ok", none_raises |-> TRUE, player_page |-> pp] :
                    pp \in {page(EpisodeWithTracks(k, 10, tl)),
                            page(EpisodeWithTracks(k, 10, Reverse(tl) \o LaterTextTracks)),
                            page(EpisodeWithTracks(k, 11, tl)),
                            [kind |-> "absent"], [kind |-> "failed"]}} :
               k \in SubtitleKinds,
               tl \in SeqUpTo(TextTracks, MaxTracks)}

OptionsSubtitles ==
    {[Options(l, <<>>, co) EXCEPT !.writesubtitles = TRUE] :
         l \in {<<>>, <<Japanese>>}, co \in CompatSets}

\* The answers to the login request: a token, a 401, another failure, a
\* response without 'token'.
LoginAnswers ==
    {[kind |-> "ok", token |-> "t"], [kind |-> "401"], [kind |-> "error"],
     [kind |-> "no_token"]}

OptionsLogin == {[o EXCEPT !.username = b] : o \in OptionsPlain, b \in BOOLEAN}

NoToken == [cls |-> None, meta_set |-> FALSE, meta |-> None]

\* ------------------------------------------------------------ state
VARIABLES
    ie,     \* the extractor about to run; "playlist" or "done" when none is
    url,    \* the URL it is given
    chain,  \* the extractors that have run or are about to, in order
    cfg,    \* the options of the run
    TOKEN,  \* FunimationBaseIE._TOKEN and FunimationMetaIE's own self._TOKEN
    out     \* what the last _real_extract call ended with

vars == <<ie, url, chain, cfg, TOKEN, out>>

Start(keys, urls, options) ==
    /\ ie \in keys
    /\ url \in {u \in urls : Suitable(ie, u)}
    /\ chain = <<ie>>
    /\ cfg \in options
    /\ TOKEN = NoToken
    /\ out = [kind |-> "start"]

\* The framework takes what _real_extract ended with: it runs the extractor
\* a url_result names on the URL it carries, and it is done with an info
\* dict or an exception.  "from" is the URL the call was given.
Finish(o) ==
    /\ out' = [from |-> url] @@ o
    /\ IF o.kind = "redirect"
       THEN /\ ie' = o.result.ie_key
            /\ url' = o.result.url
            /\ chain' = Append(chain, o.result.ie_key)
       ELSE /\ ie' = IF o.kind = "playlist" THEN "playlist" ELSE "done"
            /\ UNCHANGED <<url, chain>>
    /\ UNCHANGED cfg

CanRun(key) == ie = key /\ Len(chain) <= MaxRedirects + 1

ShowExtract ==
    /\ CanRun("FunimationShow")
    /\ \E api \in ShowApiResults : Finish(ShowRealExtract(url, api))
    /\ UNCHANGED TOKEN

\* The framework resolves an entry of the playlist.
ResolveEntry ==
    /\ ie = "playlist"
    /\ \E i \in 1..Len(out.entries) :
           /\ ie' = out.entries[i].ie_key
           /\ url' = out.entries[i].url
           /\ chain' = Append(chain, out.entries[i].ie_key)
    /\ out' = [kind |-> "entry"]
    /\ UNCHANGED <<cfg, TOKEN>>

PageExtract ==
    /\ CanRun("FunimationPage")
    /\ \E api \in TitleApiResults : Finish(PageRealExtract(url, api))
    /\ UNCHANGED TOKEN

PlayerExtractOn(inputs) ==
    /\ CanRun("Funimation")
    /\ \E inp \in inputs : Finish(PlayerSent(TOKEN, PlayerRealExtract(url, cfg, inp)))
    /\ UNCHANGED TOKEN

MetaExtractOn(inputs) ==
    /\ CanRun("FunimationMeta")
    /\ \E inp \in inputs :
           /\ Finish(MetaRealExtract(url, cfg, TOKEN, inp))
           /\ TOKEN' = IF MetaMatch(url).ok /\ inp.download # "error"
                       THEN MetaTokenAfter(TOKEN, inp.cookie) ELSE TOKEN

PlayerExtract == PlayerExtractOn(PlayerInputs)
MetaExtract == MetaExtractOn(MetaInputs)
PlayerExtractAll == PlayerExtractOn(PlayerInputsAll)
MetaExtractAll == MetaExtractOn(MetaInputsAll)

\* A run from any URL through the redirects.
Init == Start(Extractors, StartUrls, OptionsPlain)
Next == ShowExtract \/ ResolveEntry \/ PageExtract \/ PlayerExtract \/ MetaExtract
Spec == Init /\ [][Next]_vars

\* FunimationIE and FunimationMetaIE on every episode, page and option.
FormatsUrls ==
    {Url("https://www.funimation.com", T_player \o IntToStr(21)),
     Url("http://funimation.com", T_player \o IntToStr(22)),
     MetaUrl(Some(T_e1))}
InitFormats == Start({"Funimation", "FunimationMeta"}, FormatsUrls, OptionsAll)
NextFormats == PlayerExtractAll \/ MetaExtractAll
SpecFormats == InitFormats /\ [][NextFormats]_vars

\* FunimationIE with writesubtitles on every episode with text tracks.
SubtitleUrls ==
    {Url("https://www.funimation.com", T_player \o IntToStr(21)),
     Url("http://funimation.com", T_player \o IntToStr(22))}
PlayerExtractSubtitles == PlayerExtractOn(SubtitleInputs)
InitSubtitles == Start({"Funimation"}, SubtitleUrls, OptionsSubtitles)
NextSubtitles == PlayerExtractSubtitles
SpecSubtitles == InitSubtitles /\ [][NextSubtitles]_vars

\* Several URLs in one session, with and without credentials.  The framework
\* initializes the instance of an extractor before its first extraction and
\* calls _perform_login then, when a username is given.
TokenKeys == {"Funimation", "FunimationMeta"}

Initialized(key) ==
    \/ \E i \in 1..(Len(chain) - 1) : chain[i] = key
    \/ out.kind = "login" /\ out.by = key

TokenLogin ==
    /\ ie \in TokenKeys
    /\ cfg.username
    /\ ~Initialized(ie)
    /\ \E answer \in LoginAnswers :
           LET r == PerformLogin(TOKEN, ie, answer)
           IN  /\ TOKEN' = r.T
               /\ out' = [kind |-> "login", by |-> ie, requested |-> r.requested,
                          raised |-> r.raised, before |-> TOKEN]
               /\ ie' = IF IsNone(r.raised) THEN ie ELSE "done"
               /\ chain' = IF IsNone(r.raised) THEN chain ELSE Take(chain, Len(chain) - 1)
    /\ UNCHANGED <<url, cfg>>

TokenPlayerExtract ==
    /\ cfg.username => Initialized("Funimation")
    /\ PlayerExtractOn(PlayerInputs)

TokenMetaExtract ==
    /\ cfg.username => Initialized("FunimationMeta")
    /\ MetaExtractOn(MetaInputs)

TokenNextUrl ==
    /\ ie = "done"
    /\ Len(chain) < MaxRuns
    /\ \E key \in TokenKeys :
           /\ ie' = key
           /\ url' \in {u \in FormatsUrls : Suitable(key, u)}
           /\ chain' = Append(chain, key)
    /\ out' = [kind |-> "start"]
    /\ UNCHANGED <<cfg, TOKEN>>

InitToken == Start(TokenKeys, FormatsUrls, OptionsLogin)
NextToken == TokenLogin \/ TokenPlayerExtract \/ TokenMetaExtract \/ TokenNextUrl
SpecToken == InitToken /\ [][NextToken]_vars

\* ------------------------------------------------------------ properties
Redirects == Len(chain) - 1

Rank(key) ==
    CASE key = "FunimationShow" -> 1
      [] key = "FunimationPage" -> 2
      [] key = "Funimation" -> 3
      [] key = "FunimationMeta" -> 4

MayFollow(a, b) ==
    CASE a = "FunimationShow" -> b = "FunimationPage"
      [] a = "FunimationPage" -> b \in {"Funimation", "FunimationMeta"}
      [] a = "Funimation" -> b = "FunimationMeta"
      [] a = "FunimationMeta" -> FALSE

\* C1: every redirect goes forward along show -> page -> player -> metadata
\* (the show only to the page, the page to the player or the metadata, the
\* player only to the metadata, the metadata nowhere), so a run makes at most
\* 3 redirects, and it ends with a playlist, an info dict or an error.
C1_RedirectsGoForward ==
    /\ \A i \in 1..(Len(chain) - 1) :
           MayFollow(chain[i], chain[i + 1]) /\ Rank(chain[i]) < Rank(chain[i + 1])
    /\ Redirects <= 3
    /\ ie \in Extractors \cup {"playlist", "done"}
    /\ ie = "done" => out.kind \in {"info", "error"}
    /\ ie = "playlist" => out.kind = "playlist"

C1_Witness == Redirects = 3 /\ ie = "done" /\ out.kind = "info"

\* C2: every redirect URL is accepted by the _VALID_URL of the extractor it
\* names: each show entry by FunimationPageIE, the player URL by FunimationIE
\* with id = the video id and episode_slug = the episode, the metadata URLs
\* by FunimationMetaIE with id = the slug; for every title-API response.
C2_RedirectUrlsMatch ==
    /\ out.kind = "playlist" =>
           \A i \in 1..Len(out.entries) : PageMatch(out.entries[i].url).ok
    /\ (out.kind = "redirect" /\ out.by = "FunimationPage" /\ out.seen.kind = "ok") =>
           LET m == PlayerMatch(out.result.url)
           IN  /\ out.result.ie_key = "Funimation"
               /\ m.ok
               /\ m.episode_slug = Some(PageMatch(out.from).episode)
               /\ ~IsNone(FirstVideoId(out.seen.videoList)) =>
                      m.id = IntToStr(Val(FirstVideoId(out.seen.videoList)))
    /\ (out.kind = "redirect" /\ out.by = "FunimationPage" /\ out.seen.kind = "error") =>
           LET m == MetaMatch(out.result.url)
           IN  m.ok /\ m.id = PageMatch(out.from).episode
    /\ (out.kind = "redirect" /\ out.by = "Funimation") =>
           LET m == MetaMatch(out.result.url)
           IN  m.ok /\ Some(m.id) = PlayerMatch(out.from).episode_slug

\* C3: FunimationPageIE has three outcomes: after a successful request the
\* redirect to the player URL of the first video id; after a 404 the redirect
\* to the metadata URL of the episode; after any other failed request the
\* ExtractorError reaches the caller.
C3_PageOutcomes ==
    (out.kind \in {"redirect", "error"} /\ out.by = "FunimationPage" /\ PageMatch(out.from).ok) =>
        LET episode == PageMatch(out.from).episode
            api == out.seen
        IN  CASE api.kind = "ok" ->
                     /\ out.kind = "redirect"
                     /\ out.result.ie_key = "Funimation"
                     /\ out.result.url = PlayerUrl(FirstVideoId(api.videoList), episode)
              [] api.kind = "error" /\ api.cause = "HTTPError" /\ api.status = 404 ->
                     /\ out.kind = "redirect"
                     /\ out.result.ie_key = "FunimationMeta"
                     /\ out.result.url = MetaUrl(Some(episode))
              [] OTHER ->
                     out.kind = "error" /\ out.exc = "ExtractorError"

\* Whether the player page holds an episode with the experience id.
HasExperience(webpage, id) ==
    /\ webpage.kind = "show"
    /\ \E i \in 1..Len(webpage.episodes) :
           \E j \in 1..Len(webpage.episodes[i].experiences) :
               webpage.episodes[i].experiences[j].experienceId = id

\* C4: when FunimationIE gets no episode with the URL's experience id from
\* the player page (show data absent, unparsable, or without that id), it
\* redirects to the metadata URL of the slug if the URL has one, without
\* raising, and raises an ExtractorError if the URL has none.
C4_PlayerFallsBack ==
    (/\ out.kind \in {"redirect", "error", "info"}
     /\ out.by = "Funimation"
     /\ PlayerMatch(out.from).ok
     /\ out.seen.download = "ok"
     /\ ~HasExperience(out.seen.webpage, StrToInt(PlayerMatch(out.from).id))) =>
        LET slug == PlayerMatch(out.from).episode_slug
        IN  IF IsNone(slug)
            THEN out.kind = "error" /\ out.exc = "ExtractorError"
            ELSE /\ out.kind = "redirect"
                 /\ out.result.ie_key = "FunimationMeta"
                 /\ out.result.url = MetaUrl(slug)

\* C5: with the compat option 'seperate-video-versions' the 'id' FunimationIE
\* returns is the experience id of the URL, and 'episode_id' stays the
\* episode's episodePk.
C5_CompatIdIsPlayerId ==
    (/\ out.kind = "info"
     /\ out.by = "Funimation"
     /\ "seperate-video-versions" \in cfg.compat_opts) =>
        /\ out.id = PlayerMatch(out.from).id
        /\ \E i \in 1..Len(out.seen.webpage.episodes) :
               out.episode_id = IntToStr(out.seen.webpage.episodes[i].episodePk)

\* The options as the properties read them: the requested names, lower-cased.
RequestedList(given) == [i \in 1..Len(given) |-> Lower(given[i])]
RequestedSet(given) == {Lower(given[i]) : i \in 1..Len(given)}
SeqSet(s) == {s[i] : i \in 1..Len(s)}

\* The episode FunimationIE works on: the first of the page that holds the
\* experience id of the URL.
ClaimEpisode(o) ==
    LET eps == o.seen.webpage.episodes
        id == StrToInt(PlayerMatch(o.from).id)
    IN  eps[MinOf({i \in 1..Len(eps) :
                       \E j \in 1..Len(eps[i].experiences) :
                           eps[i].experiences[j].experienceId = id})]

\* An experience passes the active filters.
PassesFilters(o, x) ==
    /\ cfg.language # <<>> => Lower(x.lang) \in RequestedSet(cfg.language)
    /\ cfg.version # <<>> => Lower(x.version) \in RequestedSet(cfg.version)
    /\ "seperate-video-versions" \in cfg.compat_opts =>
           IntToStr(x.experienceId) = PlayerMatch(o.from).id

PlayerEnded(o) ==
    /\ o.kind \in {"info", "error"}
    /\ o.by = "Funimation"
    /\ o.kind = "error" => o.exc = "NoFormats"

\* C6: every format and thumbnail FunimationIE returns comes from an
\* experience that passes the language, version and compat-option filters;
\* no showexperience or subtitle request is made for another experience;
\* and with a language or version requested and no format left, the 'no
\* video formats' error is raised.
C6_OnlyFilteredExperiences ==
    PlayerEnded(out) =>
        LET xs == SeqSet(ClaimEpisode(out).experiences)
            asked == cfg.language # <<>> \/ cfg.version # <<>>
        IN  /\ \A r \in SeqSet(out.requested) :
                   \E x \in xs : IntToStr(x.experienceId) = r /\ PassesFilters(out, x)
            /\ out.kind = "error" => asked
            /\ out.kind = "info" =>
                   /\ \A f \in SeqSet(out.formats) :
                          \E x \in xs : /\ IntToStr(x.experienceId) = f.format_id.exp
                                        /\ PassesFilters(out, x)
                   /\ \A t \in SeqSet(out.thumbnails) :
                          \E x \in xs : x.poster = t.url /\ PassesFilters(out, x)
                   /\ asked => out.formats # <<>>

C6_Witness ==
    /\ PlayerEnded(out)
    /\ out.kind = "info"
    /\ cfg.language # <<>>
    /\ out.formats # <<>>
    /\ \E x \in SeqSet(ClaimEpisode(out).experiences) :
           Lower(x.lang) \notin RequestedSet(cfg.language)

MetaEnded(o) ==
    /\ o.kind \in {"info", "error"}
    /\ o.by = "FunimationMeta"
    /\ o.kind = "error" => o.exc = "NoFormats"

\* C7: with 'language' or 'version' given, every format FunimationMetaIE
\* returns has an audio language and a version among those requested, and
\* the 'no video formats' error is raised exactly when no primary or
\* fallback playback matches the request.
C7_MetaOnlyRequested ==
    MetaEnded(out) =>
        LET page == out.seen.page
            plays == (IF IsNone(page.primary) THEN {} ELSE {Val(page.primary)})
                       \cup SeqSet(page.fallback)
            asked == cfg.language # <<>> \/ cfg.version # <<>>
            Matches(l, v) ==
                /\ cfg.language # <<>> => Lower(l) \in RequestedSet(cfg.language)
                /\ cfg.version # <<>> => Lower(v) \in RequestedSet(cfg.version)
            nomatch == asked /\ ~\E pb \in plays : Matches(pb.audioLanguage, pb.version)
        IN  /\ (out.kind = "error") <=> nomatch
            /\ out.kind = "info" =>
                   \A f \in SeqSet(out.formats) : Matches(f.language, f.format_note)

\* The places <<i, j>> of the API answer that hold a VOD item: the j-th key
\* of the i-th item, when the key reads mostRecentAvod or mostRecentSvod in
\* any letter case.
VodPlaces(items) ==
    {pl \in UNION {{<<i, j>> : j \in 1..Len(items[i])} : i \in 1..Len(items)} :
         LET k == items[pl[1]][pl[2]].key
         IN  /\ Len(k) >= 14
             /\ [n \in 1..14 |-> FoldChar(k[n])]
                    \in {T_mostrecent \o <<"a">> \o T_vod, T_mostrecent \o <<"s">> \o T_vod}}

\* C8: the playlist of FunimationShowIE lists the show's VOD items in
\* non-decreasing episodeOrder, the items without episodeOrder first and
\* ties in API order; no two entries are equal, the duplicates of an episode
\* collapsing to the first occurrence; each entry is a redirect to
\* FunimationPageIE for base_url/episodeSlug.
C8_PlaylistSortedNoDuplicates ==
    (out.kind = "playlist" /\ out.by = "FunimationShow") =>
        LET items == out.seen.items
            base == ShowMatch(out.from).url
            E == out.entries
            At(pl) == items[pl[1]][pl[2]].item
            EntryAt(pl) ==
                [type |-> "url", ie_key |-> "FunimationPage",
                 url |-> Url(base.origin, base.rest \o <<"/">> \o FmtText(At(pl).episodeSlug)),
                 id |-> At(pl).episodeId, title |-> At(pl).episodeName]
            OrdLE(a, b) ==
                \/ IsNone(At(a).episodeOrder)
                \/ /\ ~IsNone(At(b).episodeOrder)
                   /\ Val(At(a).episodeOrder) <= Val(At(b).episodeOrder)
            ApiBefore(a, b) == a[1] < b[1] \/ (a[1] = b[1] /\ a[2] < b[2])
            Before(a, b) == ~OrdLE(b, a) \/ (OrdLE(a, b) /\ ApiBefore(a, b))
            First(e) == CHOOSE a \in VodPlaces(items) :
                            /\ EntryAt(a) = e
                            /\ \A b \in VodPlaces(items) \ {a} : EntryAt(b) = e => Before(a, b)
        IN  /\ \A i, j \in 1..Len(E) : i # j => E[i] # E[j]
            /\ SeqSet(E) = {EntryAt(pl) : pl \in VodPlaces(items)}
            /\ \A i, j \in 1..Len(E) : i < j => Before(First(E[i]), First(E[j]))

C8_Witness ==
    /\ out.kind = "playlist"
    /\ out.by = "FunimationShow"
    /\ Len(out.entries) = 2
    /\ Cardinality(VodPlaces(out.seen.items)) >= 3
    /\ \E a, b \in VodPlaces(out.seen.items) :
           /\ a[1] < b[1]
           /\ IsNone(out.seen.items[b[1]][b[2]].item.episodeOrder)
           /\ ~IsNone(out.seen.items[a[1]][a[2]].item.episodeOrder)
           /\ out.seen.items[a[1]][a[2]].item.episodeSlug
                  # out.seen.items[b[1]][b[2]].item.episodeSlug
           /\ FmtText(out.seen.items[b[1]][b[2]].item.episodeSlug)
                  = Drop(out.entries[1].url.rest, Len(out.entries[1].url.rest) - 2)

\* The position, from the end, of a name in a list of distinct names; -1 for
\* a name that is not in it.
RankFromEnd(order, x) ==
    IF x \in SeqSet(order) THEN Len(order) - (CHOOSE i \in 1..Len(order) : order[i] = x)
    ELSE -1

\* C9: a version requested earlier gets a strictly higher source_preference
\* than one requested later, a requested version a value >= 0 and any other
\* version -1; with none requested uncut > simulcast > the others (-1).  The
\* same for language_preference, where with none requested every non-empty
\* language gets -1.  FunimationIE and FunimationMetaIE give the same values.
C9_PreferencesRankRequests ==
    (out.kind = "info" /\ out.by \in {"Funimation", "FunimationMeta"}) =>
        LET rv == RequestedList(cfg.version)
            rl == RequestedList(cfg.language)
            order == IF rv = <<>> THEN <<Uncut, Simulcast>> ELSE rv
            Pos(list, x) == CHOOSE i \in 1..Len(list) : list[i] = x
        IN  /\ \A f \in SeqSet(out.formats) :
                   /\ f.source_preference = RankFromEnd(order, Lower(f.format_note))
                   /\ Lower(f.format_note) \in SeqSet(order) <=> f.source_preference >= 0
                   /\ Lower(f.format_note) \notin SeqSet(order) <=> f.source_preference = -1
                   /\ f.language_preference =
                          IF rl = <<>> THEN (IF Lower(f.language) = EmptyLabel THEN 0 ELSE -1)
                          ELSE RankFromEnd(rl, Lower(f.language))
            /\ \A f, g \in SeqSet(out.formats) :
                   /\ (/\ Lower(f.format_note) \in SeqSet(order)
                       /\ Lower(g.format_note) \in SeqSet(order)
                       /\ Pos(order, Lower(f.format_note)) < Pos(order, Lower(g.format_note)))
                          => f.source_preference > g.source_preference
                   /\ (/\ Lower(f.language) \in SeqSet(rl)
                       /\ Lower(g.language) \in SeqSet(rl)
                       /\ Pos(rl, Lower(f.language)) < Pos(rl, Lower(g.language)))
                          => f.language_preference > g.language_preference

C9_Witness ==
    /\ out.kind = "info"
    /\ out.by = "Funimation"
    /\ Len(cfg.version) = 2
    /\ \E f, g \in SeqSet(out.formats) :
           /\ Lower(f.format_note) = Lower(cfg.version[1])
           /\ Lower(g.format_note) = Lower(cfg.version[2])
           /\ f.source_preference > g.source_preference
           /\ g.source_preference >= 0

\* What the sources of the included experiences produce: [x, f] for every
\* format f a source of experience x gives.
Produced(o) ==
    LET included == {y \in SeqSet(ClaimEpisode(o).experiences) : PassesFilters(o, y)}
        FormatsOf(x) ==
            UNION {SeqSet(SourceFormats(o.seen.sources[k], IntToStr(x.experienceId),
                                        x.experienceId)) :
                       k \in 1..Len(o.seen.sources)}
    IN  UNION {{[x |-> x, f |-> f] : f \in FormatsOf(x)} : x \in included}

NoRepeatedUrl(formats) ==
    \A i, j \in 1..Len(formats) : i # j => formats[i].url # formats[j].url

\* Each returned format carries the values of the experience that made it.
CarriesOwnValues(o) ==
    \A g \in SeqSet(o.formats) :
        \E p \in Produced(o) :
            /\ g.format_id = p.f.format_id
            /\ g.url = p.f.url
            /\ g.language = p.x.lang
            /\ g.format_note = Title(p.x.version)
            /\ g.source_preference =
                   RankFromEnd(IF cfg.version = <<>> THEN <<Uncut, Simulcast>>
                               ELSE RequestedList(cfg.version), Lower(p.x.version))
            /\ g.language_preference =
                   IF cfg.language = <<>> THEN -1
                   ELSE RankFromEnd(RequestedList(cfg.language), Lower(p.x.lang))

\* C10 as stated: the formats FunimationIE returns contain every format
\* produced from every source of every included experience, no two of them
\* have the same URL, and each carries the language, version and preference
\* values of its own experience.
C10_EveryFormatKept ==
    (PlayerEnded(out) /\ out.kind = "info") =>
        /\ \A p \in Produced(out) :
               \E g \in SeqSet(out.formats) : g.format_id = p.f.format_id /\ g.url = p.f.url
        /\ NoRepeatedUrl(out.formats)
        /\ CarriesOwnValues(out)

\* C10 as amended: the formats FunimationIE returns contain a format for
\* every URL produced from every source of every included experience, no
\* two of them have the same URL, and each carries the language, version and
\* preference values of the experience it was produced from.
C10_EveryUrlKeptOnce ==
    (PlayerEnded(out) /\ out.kind = "info") =>
        /\ \A p \in Produced(out) : \E g \in SeqSet(out.formats) : g.url = p.f.url
        /\ NoRepeatedUrl(out.formats)
        /\ CarriesOwnValues(out)

C10_Witness ==
    /\ PlayerEnded(out)
    /\ out.kind = "info"
    /\ Len(out.seen.sources) >= 2
    /\ Len(out.requested) >= 2
    /\ Len(out.formats) >= 2
    /\ \E p \in Produced(out) :
           \A g \in SeqSet(out.formats) : g.format_id # p.f.format_id

\* The text tracks _get_subtitles can have visited in the run, each with its
\* experience: those of the episode and of the player page downloaded for the
\* other experiences.
VisitedTracks(o) ==
    LET eps == SeqSet(o.seen.webpage.episodes)
                 \cup (IF o.seen.player_page.kind = "show"
                       THEN SeqSet(o.seen.player_page.episodes) ELSE {})
    IN  UNION {UNION {UNION {{[x |-> x, t |-> t] : t \in SeqSet(src.textTracks)} :
                                 src \in SeqSet(x.sources)} :
                          x \in SeqSet(e.experiences)} :
                   e \in eps}

\* C11: in the subtitles dictionary as every _get_subtitles call leaves it,
\* no list holds two equal entries; a later call neither removes nor
\* reorders the entries (nor the keys) present before it; no text track
\* without a src is added; and the key of an entry is language[_version]
\* [_type], the version left out exactly for 'Simulcast' and the type exactly
\* for 'FULL'.
C11_SubtitlesKept ==
    (PlayerEnded(out) /\ out.kind = "info" /\ cfg.writesubtitles) =>
        LET calls == out.subtitle_calls
            Dict(k) == IF k = 0 THEN <<>> ELSE calls[k]
            KeyOf(p) ==
                <<IF IsNone(p.t.language) THEN Label("und", "lower") ELSE Val(p.t.language)>>
                \o (IF Title(p.x.version) = Label("simulcast", "cap")
                    THEN <<>> ELSE <<Title(p.x.version)>>)
                \o (IF Upper(Val(p.t.type)) = Label("full", "upper")
                    THEN <<>> ELSE <<Upper(Val(p.t.type))>>)
        IN  /\ out.subtitles = Dict(Len(calls))
            /\ \A k \in 1..Len(calls) :
                   LET d == calls[k]
                       b == Dict(k - 1)
                   IN  /\ \A i, j \in 1..Len(d) : i # j => d[i].lang # d[j].lang
                       /\ \A i \in 1..Len(d) :
                              /\ \A m, n \in 1..Len(d[i].subs) :
                                     m # n => d[i].subs[m] # d[i].subs[n]
                              /\ \A m \in 1..Len(d[i].subs) :
                                     \E p \in VisitedTracks(out) :
                                         /\ ~IsNone(p.t.src)
                                         /\ d[i].subs[m].url = Val(p.t.src)
                                         /\ d[i].lang = KeyOf(p)
                       /\ Len(b) <= Len(d)
                       /\ \A i \in 1..Len(b) :
                              /\ d[i].lang = b[i].lang
                              /\ IsPrefix(b[i].subs, d[i].subs)

C11_Witness ==
    /\ PlayerEnded(out)
    /\ out.kind = "info"
    /\ cfg.writesubtitles
    /\ Len(out.subtitle_calls) >= 2
    /\ out.subtitle_calls[1] # <<>>
    /\ out.subtitle_calls[2] # out.subtitle_calls[1]
    /\ \E i \in 1..Len(out.subtitles) : Len(out.subtitles[i].subs) >= 2
    /\ \E i, j \in 1..Len(out.subtitles) :
           Len(out.subtitles[i].lang) = 1 /\ Len(out.subtitles[j].lang) = 3
    /\ \E p \in VisitedTracks(out) : IsNone(p.t.src)

\* A token is held: by the class, or by the instance of FunimationMetaIE.
TokenHeld(T) == ~IsNone(T.cls) \/ (T.meta_set /\ ~IsNone(T.meta))
HeldValues(T) ==
    (IF IsNone(T.cls) THEN {} ELSE {Val(T.cls).value})
      \cup (IF T.meta_set /\ ~IsNone(T.meta) THEN {Val(T.meta).value} ELSE {})

\* C12: once a token is held, from a login or from the src_token cookie,
\* _perform_login makes no login request and every playback request of
\* FunimationIE and FunimationMetaIE carries Authorization: 'Token <value>'
\* and raises nothing for the token's sake; with no token held
\* FunimationMetaIE asks the anonymous endpoint and FunimationIE sends no
\* Authorization header.
C12_TokenSharedAndUsed ==
    /\ (out.kind = "login" /\ TokenHeld(out.before)) => ~out.requested
    /\ (out.kind \in {"info", "error"} /\ out.by = "FunimationMeta"
          /\ "request" \in DOMAIN out) =>
           IF TokenHeld(TOKEN)
           THEN /\ IsNone(out.request.raised)
                /\ out.request.endpoint = "play"
                /\ ~IsNone(out.request.authorization)
                /\ Val(out.request.authorization) \in HeldValues(TOKEN)
           ELSE /\ out.request.endpoint = "play/anonymous"
                /\ IsNone(out.request.authorization)
    /\ (out.kind = "info" /\ out.by = "Funimation" /\ out.requested # <<>>) =>
           IF TokenHeld(TOKEN)
           THEN /\ ~IsNone(out.headers)
                /\ Val(out.headers).text = "value"
                /\ Val(out.headers).of \in HeldValues(TOKEN)
           ELSE IsNone(out.headers)
====
